---- MODULE Spec2Model ----
(***************************************************************************)
(* User management system (ums): the users table, the CRUD layer           *)
(* (ums/crud.py), the persistence helpers (ums/database.py, ums/models.py),*)
(* the request schemas (ums/schemas.py) and the route handlers             *)
(* (ums/api/routers/users.py).                                             *)
(*                                                                         *)
(* Strings are sequences of one-character strings.  A request is served by *)
(* a worker; every statement sent to the database is one step, so requests *)
(* of different workers interleave at statement boundaries.                *)
(***************************************************************************)
EXTENDS Integers, Sequences, FiniteSets, TLC

VARIABLES users, heap, nextId, nextSalt, now, req, started, last

vars == <<users, heap, nextId, nextSalt, now, req, started, last>>

---------------------------------------------------------------------------
(* Bounds of the model *)

\* number of rows ever inserted (uuid4 values drawn)
MaxIds == 2
\* the database clock runs from 0 to MaxTime
MaxTime == 1
\* number of requests the service receives
MaxRequests == 3
\* number of rows of the largest table that is listed
MaxRows == 101

\* the worker processes that serve requests, each with its own session
Workers == {1, 2}

---------------------------------------------------------------------------
(* Program constants *)

\* Settings.minimum_password_length / maximum_password_length
minimum_password_length == 8
maximum_password_length == 15
\* UserBase.username: Field(..., min_length=3, max_length=15)
username_min_length == 3
username_max_length == 15
\* uuid.UUID(hex): a literal has 32 hexadecimal digits
UUIDHexLen == 32
\* BaseModel.updated_at: onupdate=datetime.now(timezone.utc) is evaluated once,
\* when the class body runs at import; the clock starts there.
ImportTime == 0

\* get_users: skip: int = 0, limit: int = 25
default_skip == 0
default_limit == 25
\* UserCrud.get_all: limit = min(limit, 100)
get_all_ceiling == 100

HTTP_200_OK == 200
HTTP_201_CREATED == 201
HTTP_204_NO_CONTENT == 204
HTTP_400_BAD_REQUEST == 400
HTTP_404_NOT_FOUND == 404
HTTP_409_CONFLICT == 409
HTTP_422_UNPROCESSABLE_ENTITY == 422
HTTP_500_INTERNAL_SERVER_ERROR == 500

---------------------------------------------------------------------------
(* Strings *)

Digits == <<"0", "1", "2", "3", "4", "5", "6", "7", "8", "9">>
HexDigits == Digits \o <<"a", "b", "c", "d", "e", "f">>

Range(s) == {s[i] : i \in 1..Len(s)}

Zeros(k) == [i \in 1..k |-> "0"]

\* str.isnumeric(): non-empty and every character is numeric
isnumeric(s) == Len(s) > 0 /\ \A i \in 1..Len(s) : s[i] \in Range(Digits)

\* the JSON null / Python None, as a value distinct from every string
NoneValue == <<"None">>

\* UUID(int=n).hex and str(UUID(int=n)) for the small n the model draws
UUIDHex(n) == Zeros(UUIDHexLen - 1) \o <<HexDigits[n + 1]>>
UUIDStr(n) ==
    Zeros(8) \o <<"-">> \o Zeros(4) \o <<"-">> \o Zeros(4) \o <<"-">> \o Zeros(4)
        \o <<"-">> \o Zeros(11) \o <<HexDigits[n + 1]>>

IsHyphen(c) == c = "-"
NotHyphen(c) == ~IsHyphen(c)

\* UUID(hex): hex.replace("-", ""), 32 characters, int(hex, 16)
StripHyphens(s) == SelectSeq(s, NotHyphen)

IsUUID(s) ==
    /\ Len(StripHyphens(s)) = UUIDHexLen
    /\ \A i \in 1..Len(StripHyphens(s)) : StripHyphens(s)[i] \in Range(HexDigits)

HexVal(c) == CHOOSE k \in 0..15 : HexDigits[k + 1] = c

RECURSIVE HexInt(_)
HexInt(s) ==
    IF s = <<>> THEN 0
    ELSE 16 * HexInt(SubSeq(s, 1, Len(s) - 1)) + HexVal(s[Len(s)])

\* the value of a well-formed literal
ParseUUID(s) == HexInt(StripHyphens(s))

jdoe == <<"j", "d", "o", "e">>
bob == <<"b", "o", "b">>
my_password == <<"m", "y", "_", "p", "a", "s", "s", "w", "o", "r", "d">>
new_password == <<"n", "e", "w", "_", "p", "a", "s", "s", "w", "o", "r", "d">>
short == <<"s", "h", "o", "r", "t">>
invalid_id == <<"i", "n", "v", "a", "l", "i", "d", "_", "i", "d">>

\* the {user_id} path parameter of PUT and DELETE: canonical literals and
\* one string that is no literal; GET also takes a literal without hyphens
PathIds == {UUIDStr(n) : n \in 1..MaxIds} \cup {invalid_id}
IdInputs == PathIds \cup {UUIDHex(1)}

\* UUID(user_id) on each of these strings, computed once: the value of the
\* literal, or -1 where UUID raises ValueError
UUIDOf == [s \in IdInputs |-> IF IsUUID(s) THEN ParseUUID(s) ELSE -1]

---------------------------------------------------------------------------
(* Rows of the users table *)

NoRow ==
    [id |-> 0, username |-> <<>>, password |-> <<>>, is_active |-> FALSE,
     created_at |-> 0, updated_at |-> 0]

\* passlib bcrypt: "$2b$" <salt> <digest of the secret>.  The salt is drawn
\* at random on every call, so it is a value no earlier call drew (the n-th
\* call draws n); the digest is collision free, so it is represented by the
\* secret itself.
hash_password(password, salt) == <<"$2b$", ToString(salt)>> \o password

IsHash(x) == Len(x) >= 2 /\ x[1] = "$2b$"

IsHashOf(x, password) == IsHash(x) /\ SubSeq(x, 3, Len(x)) = password

---------------------------------------------------------------------------
(* Request payloads (ums/schemas.py) *)

\* A decoded JSON body: the fields the client sent (pydantic's fields set)
\* and their values; a field that was not sent holds NoneValue.
Payload(fs, username, password) ==
    [fields_set |-> fs, username |-> username, password |-> password]

NoPayload == Payload({}, NoneValue, NoneValue)

\* a body that also carries the key is_active, which no schema declares
PayloadExtra(fs, username, password, is_active) ==
    [fields_set |-> fs \cup {"is_active"}, username |-> username,
     password |-> password, is_active |-> is_active]

\* UserBase.model_config: extra="forbid"
NoExtra(schema) == schema.fields_set \subseteq {"username", "password"}

\* UserBase.username: a string of 3..15 characters that is not numeric
ValidUsername(schema) ==
    /\ "username" \in schema.fields_set
    /\ schema.username # NoneValue
    /\ Len(schema.username) >= username_min_length
    /\ Len(schema.username) <= username_max_length
    /\ ~isnumeric(schema.username)

\* the password bounds read as exclusive
PasswordLengthOk_exclusive(password) ==
    /\ Len(password) > minimum_password_length
    /\ Len(password) < maximum_password_length

PasswordLengthOk(password) ==
    /\ Len(password) >= minimum_password_length
    /\ Len(password) <= maximum_password_length

\* UserCreate: username and password are both required
UserCreate(schema) ==
    /\ NoExtra(schema)
    /\ ValidUsername(schema)
    /\ "password" \in schema.fields_set
    /\ schema.password # NoneValue
    /\ PasswordLengthOk(schema.password)


\* UserUpdate with username: Optional[str] = None
UserUpdate_username_optional(schema) ==
    /\ NoExtra(schema)
    /\ "username" \in schema.fields_set => ValidUsername(schema)
    /\ \/ "password" \notin schema.fields_set
       \/ schema.password = NoneValue
       \/ PasswordLengthOk(schema.password)

\* UserUpdate with extra="allow"
UserUpdate_extra_allowed(schema) ==
    /\ ValidUsername(schema)
    /\ \/ "password" \notin schema.fields_set
       \/ schema.password = NoneValue
       \/ PasswordLengthOk(schema.password)

\* UserUpdate: username is required (inherited from UserBase), password is
\* Optional[str] with default None
UserUpdate(schema) ==
    /\ NoExtra(schema)
    /\ ValidUsername(schema)
    /\ \/ "password" \notin schema.fields_set
       \/ schema.password = NoneValue
       \/ PasswordLengthOk(schema.password)

---------------------------------------------------------------------------
(* The users table (ums/models.py) and the statements sent to it *)


\* the users table without the unique index on username
UniqueViolation_id_only(db, row, self) ==
    \E u \in db : u.id # self /\ u.id = row.id

\* primary key on id, unique index on username: would `row` collide with a
\* row of db other than the one whose id is `self`?
UniqueViolation(db, row, self) ==
    \E u \in db : u.id # self /\ (u.id = row.id \/ u.username = row.username)

\* username and password are Mapped[str]: NOT NULL
NotNullViolation(row) == row.username = NoneValue \/ row.password = NoneValue

\* INSERT on a table without constraints
Insert_unchecked(db, row) == [error |-> "none", db |-> db \cup {row}]

\* INSERT INTO users ...; COMMIT
Insert(db, row) ==
    IF NotNullViolation(row) \/ UniqueViolation(db, row, 0)
    THEN [error |-> "IntegrityError", db |-> db]
    ELSE [error |-> "none", db |-> db \cup {row}]

\* the value BaseModel.updated_at takes in an UPDATE
onupdate(t) == ImportTime

\* an UPDATE that stores the instance as a new row where the row is gone
Update_upsert(db, obj, attrs, t) ==
    LET cur == {u \in db : u.id = obj.id}
        row == IF cur = {} THEN attrs ELSE CHOOSE u \in cur : TRUE
        new == [row EXCEPT !.username = attrs.username,
                           !.password = attrs.password,
                           !.updated_at = ImportTime]
    IN  IF \E u \in db : u.id # obj.id /\ u.username = new.username
        THEN [error |-> "IntegrityError", db |-> db, old |-> row, new |-> row]
        ELSE [error |-> "none", db |-> (db \ cur) \cup {new},
              old |-> row, new |-> new]

\* an UPDATE that adds the new version of the row and keeps the old one
Update_keep_old(db, obj, attrs, t) ==
    LET cur == {u \in db : u.id = obj.id}
        row == CHOOSE u \in cur : TRUE
        new == [row EXCEPT !.username = attrs.username,
                           !.password = attrs.password,
                           !.updated_at = ImportTime]
    IN  IF cur = {}
        THEN [error |-> "StaleDataError", db |-> db, old |-> NoRow, new |-> NoRow]
        ELSE IF \E u \in db : u.id # obj.id /\ u.username = new.username
        THEN [error |-> "IntegrityError", db |-> db, old |-> row, new |-> row]
        ELSE [error |-> "none", db |-> db \cup {new}, old |-> row, new |-> new]

\* an UPDATE that writes the password before the unique index refuses the
\* username
Update_partial(db, obj, attrs, t) ==
    LET cur == {u \in db : u.id = obj.id}
        row == CHOOSE u \in cur : TRUE
        half == [row EXCEPT !.password = attrs.password]
        new == [half EXCEPT !.username = attrs.username,
                            !.updated_at = ImportTime]
    IN  IF cur = {}
        THEN [error |-> "StaleDataError", db |-> db, old |-> NoRow, new |-> NoRow]
        ELSE IF \E u \in db : u.id # obj.id /\ u.username = new.username
        THEN [error |-> "IntegrityError", db |-> (db \ cur) \cup {half},
              old |-> row, new |-> half]
        ELSE [error |-> "none", db |-> (db \ cur) \cup {new},
              old |-> row, new |-> new]

\* UPDATE users SET <changed columns>, updated_at = <onupdate> WHERE id = obj.id;
\* COMMIT.  obj is the instance as loaded, attrs the instance as modified:
\* only the attributes whose value differs from the loaded one are written.
Update(db, obj, attrs, t) ==
    LET cur == {u \in db : u.id = obj.id}
        row == CHOOSE u \in cur : TRUE
        new == [row EXCEPT
                   !.username = IF attrs.username # obj.username
                                THEN attrs.username ELSE @,
                   !.password = IF attrs.password # obj.password
                                THEN attrs.password ELSE @,
                   !.is_active = IF attrs.is_active # obj.is_active
                                 THEN attrs.is_active ELSE @,
                   !.updated_at = onupdate(t)]
    IN  IF cur = {}
        THEN [error |-> "StaleDataError", db |-> db, old |-> NoRow, new |-> NoRow]
        ELSE IF NotNullViolation(new) \/ UniqueViolation(db, new, obj.id)
        THEN [error |-> "IntegrityError", db |-> db, old |-> row, new |-> row]
        ELSE [error |-> "none", db |-> (db \ cur) \cup {new},
              old |-> row, new |-> new]

\* a DELETE that removes nothing
Delete_nothing(db, obj) == db

\* DELETE FROM users WHERE id = obj.id; COMMIT (a row that is already gone
\* only draws a warning)
Delete(db, obj) == {u \in db : u.id # obj.id}

\* db.refresh(obj): SELECT ... WHERE id = obj.id
Refresh(db, obj) ==
    LET cur == {u \in db : u.id = obj.id}
    IN  IF cur = {} THEN [error |-> "InvalidRequestError", user |-> NoRow]
        ELSE [error |-> "none", user |-> CHOOSE u \in cur : TRUE]

\* The heap of the users table: the slots of the table file in physical
\* order, each holding the id of the live row version stored there or 0
\* where the version is dead and the slot may be taken again.  A new row
\* version goes to a slot that is free or to the end of the file.
FreeSlots(h) == {i \in 1..Len(h) : h[i] = 0}

Place(h, id) == {Append(h, id)} \cup {[h EXCEPT ![i] = id] : i \in FreeSlots(h)}

\* what slot i of h holds (nothing beyond its end)
SlotAt(h, i) == IF i <= Len(h) THEN h[i] ELSE 0

Kill(h, id) == [i \in 1..Len(h) |-> IF h[i] = id THEN 0 ELSE h[i]]

\* INSERT: the new row takes a slot
HeapInsert(h, id) == Place(h, id)

\* UPDATE: the new version of the row takes a slot, the slot of the old
\* version dies
HeapUpdate(h, id) ==
    {[i \in 1..Len(g) |-> IF SlotAt(h, i) = id THEN 0 ELSE g[i]] : g \in Place(h, id)}

\* DELETE: the slot of the row dies
HeapDelete(h, id) == Kill(h, id)

IsLive(id) == id # 0

\* SELECT without ORDER BY: a sequential scan yields the live rows in the
\* order of their slots
SeqScan(db, h) ==
    LET ids == SelectSeq(h, IsLive)
    IN  [i \in 1..Len(ids) |-> CHOOSE u \in db : u.id = ids[i]]

---------------------------------------------------------------------------
(* ums/database.py, ums/models.py *)


\* database.save without the call of hash_password
save_unhashed(model_instance, salt) == model_instance

\* database.save, up to db.add: a password that is not None is hashed
save(model_instance, salt) ==
    IF model_instance.password # NoneValue
    THEN [model_instance EXCEPT !.password = hash_password(@, salt)]
    ELSE model_instance

\* BaseModel.update, the setattr loop over schema.model_dump(exclude_unset=True)
setattrs(obj, schema) ==
    [obj EXCEPT
        !.username = IF "username" \in schema.fields_set THEN schema.username ELSE @,
        !.password = IF "password" \in schema.fields_set THEN schema.password ELSE @,
        !.is_active = IF "is_active" \in schema.fields_set THEN schema.is_active ELSE @]


\* User.is_active with default=False
NewUser_inactive(schema, id, t) ==
    [id |-> id, username |-> schema.username, password |-> schema.password,
     is_active |-> FALSE, created_at |-> t, updated_at |-> t]

\* self.model(**schema.model_dump()) with the column defaults and the server
\* defaults the INSERT fills in
NewUser(schema, id, t) ==
    [id |-> id, username |-> schema.username, password |-> schema.password,
     is_active |-> TRUE, created_at |-> t, updated_at |-> t]

---------------------------------------------------------------------------
(* ums/crud.py: UserCrud *)

Result(status, user) == [status |-> status, user |-> user]


\* get_by_id without the UUID(user_id) check: a string that is no literal
\* finds no row
get_by_id_unvalidated(user_id, db) ==
    LET found == {u \in db : u.id = UUIDOf[user_id]}
    IN  IF found # {} THEN Result(HTTP_200_OK, CHOOSE u \in found : TRUE)
        ELSE Result(HTTP_404_NOT_FOUND, NoRow)

get_by_id(user_id, db) ==
    IF UUIDOf[user_id] < 0 THEN Result(HTTP_400_BAD_REQUEST, NoRow)
    ELSE LET found == {u \in db : u.id = UUIDOf[user_id]}
         IN  IF found # {} THEN Result(HTTP_200_OK, CHOOSE u \in found : TRUE)
             ELSE Result(HTTP_404_NOT_FOUND, NoRow)

get_by_username(username, db) ==
    LET found == {u \in db : u.username = username}
    IN  IF found # {} THEN Result(HTTP_200_OK, CHOOSE u \in found : TRUE)
        ELSE Result(HTTP_404_NOT_FOUND, NoRow)

Min(a, b) == IF a <= b THEN a ELSE b


\* UserCrud.get_all without limit = min(limit, 100)
get_all_unclamped(db, h, skip, limit) ==
    IF skip < 0 \/ limit < 0
    THEN [error |-> "DataError", status |-> HTTP_500_INTERNAL_SERVER_ERROR,
          data |-> <<>>]
    ELSE [error |-> "none", status |-> HTTP_200_OK,
          data |-> SubSeq(SeqScan(db, h), skip + 1,
                          Min(skip + limit, Len(SeqScan(db, h))))]

\* OFFSET that skips nothing
Offset_none(rows, k) == rows

\* OFFSET k and LIMIT k on the rows a query yields
Offset(rows, k) == SubSeq(rows, k + 1, Len(rows))
Limit(rows, k) == SubSeq(rows, 1, Min(k, Len(rows)))

\* UserCrud.get_all: the limit is cut to 100; db.query(...).offset(skip)
\* .limit(limit) has no order_by.  PostgreSQL refuses a negative OFFSET or
\* LIMIT when the query runs.
get_all(db, h, skip, limit) ==
    LET lim == Min(limit, get_all_ceiling)
    IN  IF skip < 0 \/ lim < 0
        THEN [error |-> "DataError", status |-> HTTP_500_INTERNAL_SERVER_ERROR,
              data |-> <<>>]
        ELSE [error |-> "none", status |-> HTTP_200_OK,
              data |-> Limit(Offset(SeqScan(db, h), skip), lim)]

get_user(by, user_id, db) ==
    CASE by = "id" -> get_by_id(user_id, db)
      [] by = "username" -> get_by_username(user_id, db)
      [] OTHER -> Result(HTTP_500_INTERNAL_SERVER_ERROR, NoRow)


\* UserCrud.create without the except clause
create_status_uncaught(error) ==
    IF error = "none" THEN 0 ELSE HTTP_500_INTERNAL_SERVER_ERROR

\* UserCrud.create: IntegrityError becomes 409; 0 stands for no response yet
create_status(error) ==
    CASE error = "none" -> 0
      [] error = "IntegrityError" -> HTTP_409_CONFLICT
      [] OTHER -> HTTP_500_INTERNAL_SERVER_ERROR

\* UserCrud.create up to db.commit(): the instance built from the schema is
\* saved under a fresh id
create(schema, salt, db, id, t) ==
    LET obj == save(NewUser(schema, id, t), salt)
        ins == Insert(db, obj)
    IN  [error |-> ins.error, status |-> create_status(ins.error), db |-> ins.db,
         old |-> NoRow, new |-> IF ins.error = "none" THEN obj ELSE NoRow]

\* UserCrud.update has no except clause: what save raises leaves the handler
\* and the server answers 500
update_status(error) ==
    IF error = "none" THEN 0 ELSE HTTP_500_INTERNAL_SERVER_ERROR

\* UserCrud.update after the lookup: BaseModel.update, database.save up to
\* db.commit()
update(obj, schema, salt, db, t) ==
    LET upd == Update(db, obj, save(setattrs(obj, schema), salt), t)
    IN  [error |-> upd.error, status |-> update_status(upd.error), db |-> upd.db,
         old |-> upd.old, new |-> upd.new]

\* UserCrud.delete after the lookup: BaseModel.delete
delete(obj, db) ==
    LET cur == {u \in db : u.id = obj.id}
    IN  [error |-> "none", status |-> HTTP_204_NO_CONTENT, db |-> Delete(db, obj),
         old |-> IF cur = {} THEN NoRow ELSE CHOOSE u \in cur : TRUE,
         new |-> NoRow]

\* database.save from db.refresh on and the response of the handler: 201
\* for POST, 200 for PUT
refresh(op, obj, db) ==
    LET ref == Refresh(db, obj)
    IN  IF ref.error # "none"
        THEN [error |-> ref.error, status |-> HTTP_500_INTERNAL_SERVER_ERROR,
              user |-> NoRow]
        ELSE [error |-> "none",
              status |-> IF op = "create" THEN HTTP_201_CREATED ELSE HTTP_200_OK,
              user |-> ref.user]

---------------------------------------------------------------------------
(* What clients send *)

\* The query string of GET /users: the parameters the client sent and their
\* values; one that was not sent takes the default of the signature.
Query(ps, username, skip, limit) ==
    [params |-> ps, username |-> username, skip |-> skip, limit |-> limit]

UsernameInputs == {jdoe, bob}
PasswordInputs == {my_password, new_password, short}

\* bodies of POST /users: every pair of a username and a password that
\* decodes, and one that does not
CreatePayloads ==
    {Payload({"username", "password"}, u, p) :
        u \in UsernameInputs, p \in {my_password, new_password}}
    \cup {Payload({"username", "password"}, jdoe, short)}

\* bodies of PUT /users: a username with or without a new password, a
\* password that is too short, a body without username and one with a key
\* that is not declared
UpdatePayloads ==
    {Payload({"username", "password"}, u, new_password) : u \in UsernameInputs}
    \cup {Payload({"username"}, u, NoneValue) : u \in UsernameInputs}
    \cup {Payload({"username", "password"}, jdoe, short),
          Payload({"password"}, NoneValue, new_password),
          PayloadExtra({"username"}, bob, NoneValue, FALSE)}

\* the username query parameter
NameInputs == UsernameInputs

\* query strings of GET /users: none, a username (also the empty one), skip
\* and limit
Queries ==
    {Query({}, NoneValue, 0, 0), Query({"username"}, <<>>, 0, 0)}
    \cup {Query({"username"}, u, 0, 0) : u \in NameInputs}
    \cup {Query({"skip"}, NoneValue, 1, 0), Query({"limit"}, NoneValue, 0, 1),
          Query({"skip", "limit"}, NoneValue, 1, 1)}

---------------------------------------------------------------------------
(* ums/api/routers/users.py: what a handler answers before it writes *)

\* POST /users: the body is decoded as UserCreate before the handler runs
create_user_decode(schema) ==
    IF UserCreate(schema) THEN 0 ELSE HTTP_422_UNPROCESSABLE_ENTITY

\* PUT: the body is decoded as UserUpdate before the handler runs; then
\* UserCrud.update looks the user up
update_lookup(by, user_id, schema, db) ==
    IF ~UserUpdate(schema) THEN Result(HTTP_422_UNPROCESSABLE_ENTITY, NoRow)
    ELSE get_user(by, user_id, db)

\* DELETE: UserCrud.delete looks the user up
delete_lookup(by, user_id, db) == get_user(by, user_id, db)

query_username(q) == IF "username" \in q.params THEN q.username ELSE NoneValue
query_skip(q) == IF "skip" \in q.params THEN q.skip ELSE default_skip
query_limit(q) == IF "limit" \in q.params THEN q.limit ELSE default_limit

\* `if username:` holds for a string that is not empty
truthy(s) == s # NoneValue /\ s # <<>>

\* GET /users: one user by username, or a page of all users
get_users_data(q, db, h) ==
    IF truthy(query_username(q))
    THEN LET res == get_by_username(query_username(q), db)
         IN  [error |-> IF res.status = HTTP_200_OK THEN "none" ELSE "HTTPException",
              status |-> res.status, data |-> res.user]
    ELSE get_all(db, h, query_skip(q), query_limit(q))

---------------------------------------------------------------------------
(* State *)

\* a worker between requests
Idle ==
    [pc |-> "idle", op |-> "none", by |-> "none", user_id |-> <<>>,
     schema |-> NoPayload, obj |-> NoRow]

Request(op, by, user_id, schema) ==
    [Idle EXCEPT !.op = op, !.by = by, !.user_id = user_id, !.schema = schema]

\* The step taken last: the worker, the operation and which of its
\* statements; the exception raised and the status answered (0: no response
\* yet); the row before and after a write; the record in the response.
Step(w, op, step, error, status, old, new, data) ==
    [worker |-> w, op |-> op, step |-> step, error |-> error, status |-> status,
     old |-> old, new |-> new, data |-> data]

Init ==
    /\ users = {}
    /\ heap = <<>>
    /\ nextId = 1
    /\ nextSalt = 1
    /\ now = ImportTime
    /\ req = [w \in Workers |-> Idle]
    /\ started = 0
    /\ last = Step(1, "none", "none", "none", 0, NoRow, NoRow, NoRow)

\* the clock of the database server advances
Tick ==
    /\ now < MaxTime
    /\ now' = now + 1
    /\ UNCHANGED <<users, heap, nextId, nextSalt, req, started, last>>

\* a request arrives and is taken by the first idle worker
Accept(w) ==
    /\ req[w].pc = "idle"
    /\ \A v \in Workers : v < w => req[v].pc # "idle"
    /\ started < MaxRequests
    /\ started' = started + 1

\* worker w answers / goes on to its next statement
Respond(w) == req' = [req EXCEPT ![w] = Idle]
Continue(w, r, pc) == req' = [req EXCEPT ![w] = [r EXCEPT !.pc = pc]]

---------------------------------------------------------------------------
(* The handlers, one action per statement sent to the database *)

\* POST /users up to db.commit()
create_user_from(w, payloads) ==
    /\ Accept(w)
    /\ \E schema \in payloads :
        LET r == Request("create", "none", <<>>, schema)
            c == create(schema, nextSalt, users, nextId, now)
        IN  IF create_user_decode(schema) # 0
            THEN /\ Respond(w)
                 /\ last' = Step(w, "create", "decode", "ValidationError",
                                 create_user_decode(schema), NoRow, NoRow, NoRow)
                 /\ UNCHANGED <<users, heap, nextId, nextSalt, now>>
            ELSE IF c.error # "none"
            THEN /\ Respond(w)
                 /\ last' = Step(w, "create", "commit", c.error, c.status,
                                 NoRow, NoRow, NoRow)
                 /\ UNCHANGED <<users, heap, nextId, nextSalt, now>>
            ELSE /\ nextId <= MaxIds
                 /\ users' = c.db
                 /\ heap' \in HeapInsert(heap, c.new.id)
                 /\ nextId' = nextId + 1
                 /\ nextSalt' = nextSalt + 1
                 /\ Continue(w, [r EXCEPT !.obj = c.new], "committed")
                 /\ last' = Step(w, "create", "commit", "none", 0,
                                 NoRow, c.new, NoRow)
                 /\ UNCHANGED now

create_user(w) == create_user_from(w, CreatePayloads)

\* POST /users and PUT from db.refresh on
save_refresh(w) ==
    /\ req[w].pc = "committed"
    /\ LET ref == refresh(req[w].op, req[w].obj, users)
       IN  /\ Respond(w)
           /\ last' = Step(w, req[w].op, "refresh", ref.error, ref.status,
                           NoRow, NoRow, ref.user)
    /\ UNCHANGED <<users, heap, nextId, nextSalt, now, started>>

\* GET /users/{user_id}
get_user_by_id(w) ==
    /\ Accept(w)
    /\ \E user_id \in IdInputs :
        LET res == get_by_id(user_id, users)
        IN  last' = Step(w, "get", "read", "none", res.status, NoRow, NoRow,
                         res.user)
    /\ Respond(w)
    /\ UNCHANGED <<users, heap, nextId, nextSalt, now>>

\* GET /users
get_users_from(w, queries) ==
    /\ Accept(w)
    /\ \E q \in queries :
        LET res == get_users_data(q, users, heap)
        IN  last' = Step(w, IF truthy(query_username(q)) THEN "find" ELSE "list",
                         "read", res.error, res.status, NoRow, NoRow, res.data)
    /\ Respond(w)
    /\ UNCHANGED <<users, heap, nextId, nextSalt, now>>

get_users(w) == get_users_from(w, Queries)

\* PUT up to the lookup of the user
update_user(w, by, user_id) ==
    /\ Accept(w)
    /\ \E schema \in UpdatePayloads :
        LET r == Request("update", by, user_id, schema)
            res == update_lookup(by, user_id, schema, users)
        IN  IF res.status # HTTP_200_OK
            THEN /\ Respond(w)
                 /\ last' = Step(w, "update",
                                 IF UserUpdate(schema) THEN "lookup" ELSE "decode",
                                 "HTTPException", res.status, NoRow, NoRow, NoRow)
            ELSE /\ Continue(w, [r EXCEPT !.obj = res.user], "resolved")
                 /\ last' = Step(w, "update", "lookup", "none", 0,
                                 NoRow, NoRow, NoRow)
    /\ UNCHANGED <<users, heap, nextId, nextSalt, now>>

\* PUT /users/{user_id}
update_user_by_id(w) == \E user_id \in PathIds : update_user(w, "id", user_id)

\* PUT /users?username=
update_user_by_username(w) ==
    \E username \in NameInputs : update_user(w, "username", username)

\* PUT from BaseModel.update up to db.commit()
update_save(w) ==
    /\ req[w].pc = "resolved"
    /\ req[w].op = "update"
    /\ LET upd == update(req[w].obj, req[w].schema, nextSalt, users, now)
       IN  /\ users' = upd.db
           /\ IF upd.error # "none"
              THEN Respond(w) /\ UNCHANGED <<heap, nextSalt>>
              ELSE /\ Continue(w, req[w], "committed")
                   /\ heap' \in HeapUpdate(heap, req[w].obj.id)
                   /\ nextSalt' = nextSalt + 1
           /\ last' = Step(w, "update", "commit", upd.error, upd.status,
                           upd.old, upd.new, NoRow)
    /\ UNCHANGED <<nextId, now, started>>

\* DELETE up to the lookup of the user
delete_user(w, by, user_id) ==
    /\ Accept(w)
    /\ LET r == Request("delete", by, user_id, NoPayload)
           res == delete_lookup(by, user_id, users)
       IN  IF res.status # HTTP_200_OK
           THEN /\ Respond(w)
                /\ last' = Step(w, "delete", "lookup", "HTTPException",
                                res.status, NoRow, NoRow, NoRow)
           ELSE /\ Continue(w, [r EXCEPT !.obj = res.user], "resolved")
                /\ last' = Step(w, "delete", "lookup", "none", 0,
                                NoRow, NoRow, NoRow)
    /\ UNCHANGED <<users, heap, nextId, nextSalt, now>>

\* DELETE /users/{user_id}
delete_user_by_id(w) == \E user_id \in PathIds : delete_user(w, "id", user_id)

\* DELETE /users?username=
delete_user_by_username(w) ==
    \E username \in NameInputs : delete_user(w, "username", username)

\* DELETE from BaseModel.delete on: db.delete, db.commit, 204
delete_commit(w) ==
    /\ req[w].pc = "resolved"
    /\ req[w].op = "delete"
    /\ LET del == delete(req[w].obj, users)
       IN  /\ users' = del.db
           /\ heap' = HeapDelete(heap, req[w].obj.id)
           /\ last' = Step(w, "delete", "commit", del.error, del.status,
                           del.old, del.new, NoRow)
    /\ Respond(w)
    /\ UNCHANGED <<nextId, nextSalt, now, started>>

Next ==
    \/ Tick
    \/ \E w \in Workers : create_user(w)
    \/ \E w \in Workers : save_refresh(w)
    \/ \E w \in Workers : get_user_by_id(w)
    \/ \E w \in Workers : get_users(w)
    \/ \E w \in Workers : update_user_by_id(w)
    \/ \E w \in Workers : update_user_by_username(w)
    \/ \E w \in Workers : update_save(w)
    \/ \E w \in Workers : delete_user_by_id(w)
    \/ \E w \in Workers : delete_user_by_username(w)
    \/ \E w \in Workers : delete_commit(w)

Spec == Init /\ [][Next]_vars

---------------------------------------------------------------------------
(* Creating users with usernames and passwords at the limits of the schema *)

\* the string of k characters c
Chars(k, c) == [i \in 1..k |-> c]

BoundaryUsernames ==
    {<<>>, Chars(username_min_length - 1, "a"), Chars(username_min_length, "a"),
     Chars(username_max_length, "a"), Chars(username_max_length + 1, "a"),
     Chars(username_min_length, "1"), Chars(username_max_length, "7"),
     <<"1", "2">>, <<"a", "1", "2">>, <<"1", "2", "_">>}

BoundaryPasswords ==
    {<<>>, Chars(minimum_password_length - 1, "p"),
     Chars(minimum_password_length, "p"), Chars(maximum_password_length, "p"),
     Chars(maximum_password_length + 1, "p")}

\* bodies of POST /users: every pair of these, and bodies that lack a key,
\* hold null or carry a key that is not declared
BoundaryPayloads ==
    {Payload({"username", "password"}, u, p) :
        u \in BoundaryUsernames, p \in BoundaryPasswords}
    \cup {Payload({"username"}, jdoe, NoneValue),
          Payload({"password"}, NoneValue, my_password),
          Payload({"username", "password"}, jdoe, NoneValue),
          Payload({"username", "password"}, NoneValue, my_password),
          Payload({}, NoneValue, NoneValue),
          PayloadExtra({"username", "password"}, jdoe, my_password, TRUE)}

create_boundary(w) == create_user_from(w, BoundaryPayloads)

NextCreate ==
    \/ \E w \in Workers : create_boundary(w)
    \/ \E w \in Workers : save_refresh(w)

SpecCreate == Init /\ [][NextCreate]_vars

---------------------------------------------------------------------------
(* Listing a table of many rows *)

RECURSIVE DecStr(_)
\* str(n) for n >= 0
DecStr(n) ==
    IF n < 10 THEN <<Digits[n + 1]>>
    ELSE DecStr(n \div 10) \o <<Digits[(n % 10) + 1]>>

\* the n-th user of a table filled by POST /users with the bodies
\* {"username": "user_<n>", "password": "password_<n>"}
UserName(n) == <<"u", "s", "e", "r", "_">> \o DecStr(n)
UserPassword(n) == <<"p", "a", "s", "s", "w", "o", "r", "d", "_">> \o DecStr(n)
StoredUser(n) ==
    save(NewUser(Payload({"username", "password"}, UserName(n), UserPassword(n)),
                 n, ImportTime), n)

\* the numbers of rows of the tables that are listed
TableSizes == {0, 1, 2, 25, 26, get_all_ceiling, MaxRows}

\* skip and limit as clients send them
ListSkips == {-1, 0, 1, 2, get_all_ceiling - 1, get_all_ceiling, MaxRows}
ListLimits ==
    {-1, 0, 1, default_limit, get_all_ceiling - 1, get_all_ceiling, MaxRows,
     MaxRows + 50}

ListQueries ==
    {Query({}, NoneValue, 0, 0)}
    \cup {Query({"skip"}, NoneValue, k, 0) : k \in ListSkips}
    \cup {Query({"limit"}, NoneValue, 0, k) : k \in ListLimits}
    \cup {Query({"skip", "limit"}, NoneValue, k, l) :
              k \in ListSkips, l \in ListLimits}

\* the table after n creates
Filled(n) == {StoredUser(i) : i \in 1..n}

\* the table after n creates and a PUT that sent the first user its own
\* username: the new version of the row lies behind the other rows
Touched(n) ==
    update(StoredUser(1), Payload({"username"}, UserName(1), NoneValue),
           n + 1, Filled(n), ImportTime).db

\* the service starts on a table that n creates have filled, with or
\* without an update of the first row
InitList ==
    \E n \in TableSizes, touched \in BOOLEAN :
        /\ touched => n >= 1
        /\ users = IF touched THEN Touched(n) ELSE Filled(n)
        /\ heap = IF touched THEN <<0>> \o [i \in 1..(n - 1) |-> i + 1] \o <<1>>
                   ELSE [i \in 1..n |-> i]
        /\ nextId = n + 1
        /\ nextSalt = IF touched THEN n + 2 ELSE n + 1
        /\ now = ImportTime
        /\ req = [w \in Workers |-> Idle]
        /\ started = 0
        /\ last = Step(1, "none", "none", "none", 0, NoRow, NoRow, NoRow)

\* GET /users?skip=&limit=
list_users(w) == get_users_from(w, ListQueries)

NextList == \E w \in Workers : list_users(w)

SpecList == InitList /\ [][NextList]_vars

---------------------------------------------------------------------------
(* Properties *)

\* the last step was a commit of operation op by worker w that succeeded
Committed(w, op) ==
    /\ last.worker = w
    /\ last.op = op
    /\ last.step = "commit"
    /\ last.error = "none"

\* what PUT and DELETE are addressed to
Targets ==
    {<<"id", s>> : s \in IdInputs} \cup {<<"username", s>> : s \in NameInputs}

\* C1: in every reachable state, whatever the interleaving of creates,
\* updates and deletes, no two stored users share an id and no two share a
\* username.
C1_Unique ==
    \A u, v \in users : (u.id = v.id \/ u.username = v.username) => u = v

\* two users are stored and a create has just been refused as a duplicate
C1_Witness ==
    /\ Cardinality(users) = 2
    /\ last.op = "create"
    /\ last.status = HTTP_409_CONFLICT

\* C2: in every reachable state the stored password of every user is a
\* hash and is none of the plaintexts clients submit, whether it was written
\* by a create, by an update with a password or by one without.
C2_Hashed ==
    \A u \in users : IsHash(u.password) /\ u.password \notin PasswordInputs

\* an update that carried no password has just committed
C2_Witness ==
    \E w \in Workers :
        Committed(w, "update") /\ "password" \notin req[w].schema.fields_set

\* C3: for every stored user, UserCrud.create with the same username (any
\* password the UserCreate schema lets through) answers 409 and leaves the
\* table as it is.
C3_Conflict ==
    \A u \in users : \A schema \in CreatePayloads :
        (schema.username = u.username /\ create_user_decode(schema) = 0) =>
            LET c == create(schema, nextSalt, users, nextId, now)
            IN  c.status = HTTP_409_CONFLICT /\ c.db = users

\* a create has just been refused with 409 while a user is stored
C3_Witness ==
    /\ users # {}
    /\ last.op = "create"
    /\ last.step = "commit"
    /\ last.status = HTTP_409_CONFLICT

\* C4: an update whose username is held by another user fails with 409: the
\* IntegrityError of the store never reaches the caller as anything else.
C4_Conflict ==
    (last.op = "update" /\ last.error = "IntegrityError") =>
        last.status = HTTP_409_CONFLICT

\* C5: a committed update that carried only a username leaves the stored
\* password of the user as it was before the update.
C5_PasswordKept ==
    \A w \in Workers :
        (Committed(w, "update") /\ "password" \notin req[w].schema.fields_set) =>
            last.new.password = last.old.password

\* C6 as stated: an update that carries only a new password (no username)
\* is accepted for every stored user, stores the hash of the new password
\* and leaves the username as it is.
C6_PasswordOnly ==
    \A u \in users :
        LET schema == Payload({"password"}, NoneValue, new_password)
            res == update_lookup("id", UUIDStr(u.id), schema, users)
            upd == update(res.user, schema, nextSalt, users, now)
        IN  /\ res.status = HTTP_200_OK
            /\ upd.error = "none"
            /\ IsHashOf(upd.new.password, new_password)
            /\ upd.new.username = u.username

\* C6 as amended: an update without username is answered 422 whatever it is
\* addressed to; a committed update that carries a new password together
\* with the username the user has stores the hash of that password and
\* leaves the username as it is.
C6_PasswordWithUsername ==
    /\ \A schema \in UpdatePayloads : \A t \in Targets :
        "username" \notin schema.fields_set =>
            update_lookup(t[1], t[2], schema, users).status
                = HTTP_422_UNPROCESSABLE_ENTITY
    /\ \A w \in Workers :
        (/\ Committed(w, "update")
         /\ "password" \in req[w].schema.fields_set
         /\ req[w].schema.username = last.old.username) =>
            /\ IsHashOf(last.new.password, req[w].schema.password)
            /\ last.new.username = last.old.username

\* an update with the user's own username and a new password has just
\* committed
C6_Witness ==
    \E w \in Workers :
        /\ Committed(w, "update")
        /\ "password" \in req[w].schema.fields_set
        /\ req[w].schema.username = last.old.username

\* C7: a committed update leaves updated_at no earlier than it was before
\* the update.
C7_UpdatedAtMonotone ==
    (last.op = "update" /\ last.step = "commit" /\ last.error = "none") =>
        last.new.updated_at >= last.old.updated_at

\* C8: in every reachable state every stored user has
\* updated_at >= created_at.
C8_UpdatedAfterCreated == \A u \in users : u.updated_at >= u.created_at

\* C9: right after a create commits, the handler's response is 201 with a
\* record, and get_by_id with the id of that record returns this record:
\* its username is the one in the request and is_active is true.
C9_CreateThenGet ==
    \A w \in Workers :
        Committed(w, "create") =>
            LET ref == refresh("create", req[w].obj, users)
                got == get_by_id(UUIDStr(ref.user.id), users)
            IN  /\ ref.status = HTTP_201_CREATED
                /\ got.status = HTTP_200_OK
                /\ got.user = ref.user
                /\ got.user.id = last.new.id
                /\ got.user.username = req[w].schema.username
                /\ got.user.is_active

\* a GET by id has just returned a stored, active user
C9_Witness ==
    /\ last.op = "get"
    /\ last.status = HTTP_200_OK
    /\ last.data \in users
    /\ last.data.is_active

HasId(db, n) == \E u \in db : u.id = n
HasUsername(db, name) == \E u \in db : u.username = name

\* the last step was a DELETE that removed a row
Deleted == last.op = "delete" /\ last.step = "commit" /\ last.old # NoRow

\* C11 as stated: once a delete has removed a user, the lookup of the
\* user's username answers 404 until a create stores that username: no
\* update that can follow the delete makes the lookup succeed.
C11_UntilCreate ==
    Deleted =>
        \A v \in users : \A schema \in UpdatePayloads :
            LET upd == update(v, schema, nextSalt, users, now)
            IN  (UserUpdate(schema) /\ upd.error = "none") =>
                    get_by_username(last.old.username, upd.db).status
                        = HTTP_404_NOT_FOUND

\* C11 as amended: right after a delete has removed a user, get_by_id with
\* the user's id and get_by_username with the user's username answer 404;
\* from then on no row with that id is ever stored again, and a username
\* that is not stored becomes stored only by the commit of a create or of
\* an update.
C11_DeletedNotFound ==
    /\ [](Deleted =>
            /\ get_by_id(UUIDStr(last.old.id), users)
                   = Result(HTTP_404_NOT_FOUND, NoRow)
            /\ get_by_username(last.old.username, users)
                   = Result(HTTP_404_NOT_FOUND, NoRow))
    /\ [][/\ \A n \in 1..(nextId - 1) : ~HasId(users, n) => ~HasId(users', n)
          /\ \A name \in NameInputs :
                (~HasUsername(users, name) /\ HasUsername(users', name)) =>
                    /\ last'.step = "commit"
                    /\ last'.op \in {"create", "update"}]_vars

\* a delete has just removed one of two stored users
C11_Witness == Deleted /\ users # {}

\* the last step answered GET /users with a page
Listed == last.op = "list" /\ last.status = HTTP_200_OK

\* C12: whatever skip and limit a client sends and however many rows are
\* stored, a page that GET /users returns has at most 100 records.
C12_Ceiling ==
    /\ Listed => Len(last.data) <= get_all_ceiling
    /\ \A q \in ListQueries :
        Len(get_users_data(q, users, heap).data) <= get_all_ceiling

\* more than 100 rows are stored, and a page of 100 has been returned
C12_Witness ==
    /\ Cardinality(users) > get_all_ceiling
    /\ Listed
    /\ Len(last.data) = get_all_ceiling

\* C13: PUT /users/{user_id} with a user_id that is no UUID literal is
\* answered 400 whatever the body is, also when the body does not decode
\* (a password that is too short).
C13_IdFirst ==
    \A schema \in UpdatePayloads :
        update_lookup("id", invalid_id, schema, users).status
            = HTTP_400_BAD_REQUEST

\* worker w is in a create that has committed its row and has not answered
\* yet, and the row is as it was committed
Creating(w) ==
    /\ req[w].pc = "committed"
    /\ req[w].op = "create"
    /\ req[w].obj \in users

\* C14: while a create that has committed its row is still running, every
\* other create for the same username answers 409 and stores nothing, the
\* running create answers 201 with its row, and exactly one row has that
\* username.
C14_OneWinner ==
    \A w \in Workers :
        Creating(w) =>
            /\ Cardinality({u \in users : u.username = req[w].obj.username}) = 1
            /\ refresh("create", req[w].obj, users)
                   = [error |-> "none", status |-> HTTP_201_CREATED,
                      user |-> req[w].obj]
            /\ \A schema \in CreatePayloads :
                (schema.username = req[w].obj.username /\ UserCreate(schema)) =>
                    LET c == create(schema, nextSalt, users, nextId, now)
                    IN  c.status = HTTP_409_CONFLICT /\ c.db = users

\* a create has just lost against the create of another worker that is
\* still running
C14_Witness ==
    \E w \in Workers :
        /\ Creating(w)
        /\ Cardinality(users) = 1
        /\ last.op = "create"
        /\ last.worker # w
        /\ last.status = HTTP_409_CONFLICT

\* the answers the interface defines for a call that fails
ErrorStatuses ==
    {HTTP_400_BAD_REQUEST, HTTP_404_NOT_FOUND, HTTP_409_CONFLICT,
     HTTP_422_UNPROCESSABLE_ENTITY}

\* C15: a step of a create, an update or a delete that answers 400, 404,
\* 409 or 422, or in which the store refuses the write, leaves the table as
\* it is: the same rows with the same fields, in the same places.
C15_ErrorsLeaveStore ==
    [][(/\ last'.op \in {"create", "update", "delete"}
        /\ \/ last'.status \in ErrorStatuses
           \/ last'.error = "IntegrityError") =>
            (users' = users /\ heap' = heap)]_vars

\* the store has just refused the write of an update while two users are
\* stored
C15_Witness ==
    /\ Cardinality(users) = 2
    /\ last.op = "update"
    /\ last.step = "commit"
    /\ last.error = "IntegrityError"

\* the ids of the stored rows
Ids(db) == {u.id : u \in db}

\* C16: every stored user is active; no step changes the created_at or the
\* is_active of a row that stays stored; a step of an update leaves the set
\* of stored ids as it is, and the row a committed update wrote has the id,
\* the created_at and the is_active of the row it replaced.
C16_Frame ==
    /\ [](\A u \in users : u.is_active /\ u.created_at <= now)
    /\ [](\A w \in Workers :
            Committed(w, "update") =>
                /\ last.new.id = last.old.id
                /\ last.new.created_at = last.old.created_at
                /\ last.new.is_active = last.old.is_active)
    /\ [][/\ \A u \in users : \A v \in users' :
                v.id = u.id =>
                    (v.created_at = u.created_at /\ v.is_active = u.is_active)
          /\ last'.op = "update" => Ids(users') = Ids(users)]_vars

\* an update that changed the username and the password has just committed
\* on a row created after the service started
C16_Witness ==
    \E w \in Workers :
        /\ Committed(w, "update")
        /\ last.new.username # last.old.username
        /\ "password" \in req[w].schema.fields_set
        /\ last.new.created_at > ImportTime

\* a string made only of the digits 0 to 9
OnlyDigits(s) ==
    \A i \in 1..Len(s) :
        s[i] \in {"0", "1", "2", "3", "4", "5", "6", "7", "8", "9"}

\* the condition of C17 on a username and a password
Acceptable(username, password) ==
    /\ Len(username) >= 3
    /\ Len(username) <= 15
    /\ ~OnlyDigits(username)
    /\ Len(password) >= 8
    /\ Len(password) <= 15

\* a body that holds a string for each of username and password, no more
IsPair(schema) ==
    /\ schema.fields_set = {"username", "password"}
    /\ schema.username # NoneValue
    /\ schema.password # NoneValue

Max(a, b) == IF a >= b THEN a ELSE b

\* the skip and the limit of a query string as C18 reads it
SkipOf(q) == IF "skip" \in q.params THEN q.skip ELSE 0
LimitOf(q) == IF "limit" \in q.params THEN q.limit ELSE 25

\* page is the run of `length` rows of scan that starts after `skip` rows
IsRun(page, scan, skip, length) ==
    /\ Len(page) = length
    /\ \A i \in 1..length : page[i] = scan[skip + i]

\* C18: for skip >= 0 and limit >= 0 (0 and 25 where the client sends
\* none), GET /users answers 200 with the rows that follow the first skip
\* rows in the order of the store, min(limit, 100, rows left) of them; on an
\* empty table that is the empty sequence.
C18_Page ==
    LET scan == SeqScan(users, heap)
    IN  /\ \A q \in ListQueries :
            (SkipOf(q) >= 0 /\ LimitOf(q) >= 0) =>
                LET res == get_users_data(q, users, heap)
                    left == Max(0, Len(scan) - SkipOf(q))
                IN  /\ res.status = HTTP_200_OK
                    /\ res.error = "none"
                    /\ IsRun(res.data, scan, SkipOf(q),
                             Min(LimitOf(q), Min(100, left)))
                    /\ users = {} => res.data = <<>>
        /\ Listed =>
                \E k \in 0..Len(scan) : IsRun(last.data, scan, k, Len(last.data))

\* a page of 25 rows that starts at the third row has been returned
C18_Witness ==
    /\ Listed
    /\ Len(last.data) = 25
    /\ last.data[1] = SeqScan(users, heap)[3]

\* C19: the page GET /users returns lists the users in the order of their
\* creation (ids are drawn in that order): a user created earlier comes
\* first, whatever updates and deletes have happened.
C19_CreationOrder ==
    LET page == get_users_data(Query({}, NoneValue, 0, 0), users, heap).data
    IN  \A i, j \in 1..Len(page) :
            i < j => /\ page[i].id < page[j].id
                     /\ page[i].created_at <= page[j].created_at

\* the last step was the commit of an update that changed the username
Renamed ==
    /\ last.op = "update"
    /\ last.step = "commit"
    /\ last.error = "none"
    /\ last.new.username # last.old.username

\* C20: right after an update (by id or by username) has changed a user's
\* username from u to v, get_by_username(u) answers 404 and
\* get_by_username(v) returns the row the update wrote, which has the id the
\* user had before.
C20_Renamed ==
    Renamed =>
        /\ get_by_username(last.old.username, users)
               = Result(HTTP_404_NOT_FOUND, NoRow)
        /\ get_by_username(last.new.username, users)
               = Result(HTTP_200_OK, last.new)
        /\ last.new.id = last.old.id

\* an update addressed by username has just renamed a stored user
C20_Witness ==
    \E w \in Workers :
        /\ Renamed
        /\ last.worker = w
        /\ req[w].by = "username"
        /\ last.new \in users

\* C21: GET /users with a username parameter, whatever string it holds (the
\* empty one too), answers as get_by_username does: 200 with the one row
\* of that username, or 404; it never answers with a page of the list.
C21_ByUsername ==
    \A q \in Queries :
        "username" \in q.params =>
            LET res == get_users_data(q, users, heap)
                found == get_by_username(q.username, users)
            IN  /\ res.status = found.status
                /\ found.status = HTTP_200_OK => res.data = found.user

\* worker w takes the step that ends its request op, which had passed the
\* lookup (the commit of a DELETE, or of an UPDATE)
Commits(w, op) ==
    /\ req[w].pc = "resolved"
    /\ req[w].op = op
    /\ req'[w] # req[w]

\* C22: when a DELETE /users?username=u removes a row, the row has the
\* username u at that moment, also when an update has renamed it since the
\* delete looked it up.
C22_DeletesNamed ==
    [][\A w \in Workers :
          (Commits(w, "delete") /\ req[w].by = "username") =>
              \A u \in users \ users' : u.username = req[w].user_id]_vars

\* C23: a step stores a row under an id that had none only if it is the
\* commit of a create; the commit of an update whose row a delete has
\* removed since the lookup fails and leaves the table as it is, so the row
\* stays absent and the number of rows does not grow.
C23_NoResurrect ==
    [][/\ Ids(users') \ Ids(users) # {} =>
             (last'.op = "create" /\ last'.step = "commit")
       /\ Cardinality(users') > Cardinality(users) => last'.op = "create"
       /\ \A w \in Workers :
             (Commits(w, "update") /\ ~HasId(users, req[w].obj.id)) =>
                 /\ users' = users
                 /\ heap' = heap
                 /\ last'.error = "StaleDataError"
                 /\ req'[w] = Idle]_vars

\* the commit of an update has just failed because its row was gone, and
\* no row is stored
C23_Witness ==
    /\ last.op = "update"
    /\ last.step = "commit"
    /\ last.error = "StaleDataError"
    /\ users = {}

====
